---- MODULE Spec2Model ----
(***************************************************************************)
(* compare_csv.py: key-based comparison of two CSV tables.                 *)
(*                                                                         *)
(* A column name is a sequence of tokens: "v" is <<"v">>, "v_a" is         *)
(* <<"v", "_a">>, so that adding, testing and cutting the merge suffixes   *)
(* is computed on names as the code computes it on strings.  A cell is a   *)
(* text value ("a", "b", ...) or NaN.  A DataFrame is a record             *)
(* [cols |-> sequence of names, rows |-> sequence of functions name->cell].*)
(* A text (a report line, an error list) is a sequence of string tokens.   *)
(*                                                                         *)
(* Not modelled: the two inputs both having no rows (DataFrame.apply on an *)
(* empty frame does not return a status column), an explicit --key that    *)
(* names no column at all (","), column names that collide after the merge *)
(* suffixes are added, numeric dtype coercion of cells.  The order of the  *)
(* rows of an outer merge depends on the pandas release; the model takes   *)
(* key groups in order of first appearance (left, then right) and no       *)
(* property below depends on it.                                           *)
(***************************************************************************)
EXTENDS Integers, Sequences, FiniteSets, Bags, TLC

VARIABLES pc, a, b, a_path, b_path, args_key, keys, combined, deleted,
          inserted, updated, err, csv, args_report, report, args_excel,
          OPENPYXL_AVAILABLE, excel, perm_a, perm_b, perm_combined

vars == <<pc, a, b, a_path, b_path, args_key, keys, combined, deleted,
          inserted, updated, err, csv, args_report, report, args_excel,
          OPENPYXL_AVAILABLE, excel, perm_a, perm_b, perm_combined>>

perm == <<perm_a, perm_b, perm_combined>>

outs == <<csv, args_report, report, args_excel, OPENPYXL_AVAILABLE, excel, perm>>

-----------------------------------------------------------------------------
(* Bounds *)

MaxRows1 == 2
MaxRows2 == 3
SmallRows == 1
PermRows == 2

-----------------------------------------------------------------------------
(* Names, cells, frames *)

NaN == "NaN"

isna(v) == v = NaN

SUFFIX_A == "_a"
SUFFIX_B == "_b"
MERGE == <<"_merge">>
STATUS == <<"status">>

Range(s) == {s[i] : i \in 1..Len(s)}

AddSuffix(c, suf) == Append(c, suf)

endswith(c, suf) == Len(c) > 0 /\ c[Len(c)] = suf

CutSuffix(c) == SubSeq(c, 1, Len(c) - 1)

\* Python's order on the strings that occur as name tokens ('_' < 'a'..'z')
TokRank(t) ==
  CASE t = "_a" -> 1 [] t = "_b" -> 2 [] t = "_merge" -> 3 [] t = "id" -> 4
    [] t = "k" -> 5 [] t = "status" -> 6 [] t = "v" -> 7 [] t = "w" -> 8
    [] t = "zz" -> 9

RECURSIVE NameLess(_, _)
NameLess(c, d) ==
  IF Len(c) = 0 THEN Len(d) > 0
  ELSE IF Len(d) = 0 THEN FALSE
  ELSE IF c[1] # d[1] THEN TokRank(c[1]) < TokRank(d[1])
  ELSE NameLess(Tail(c), Tail(d))

\* sorted(list(S)) for a set of names
RECURSIVE sorted(_)
sorted(S) ==
  IF S = {} THEN <<>>
  ELSE LET m == CHOOSE x \in S : \A y \in S \ {x} : NameLess(x, y)
       IN  <<m>> \o sorted(S \ {m})

\* Python's order on the text cells of the model
CellRank(v) == CASE v = "a" -> 1 [] v = "b" -> 2 [] v = "c" -> 3

\* sort_values: ascending, NaN last
CellLess(x, y) == ~isna(x) /\ (isna(y) \/ CellRank(x) < CellRank(y))

EmptyFrame == [cols |-> <<>>, rows |-> <<>>]

columns(df) == Range(df.cols)

len(df) == Len(df.rows)

empty(df) == Len(df.rows) = 0 \/ Len(df.cols) = 0

-----------------------------------------------------------------------------
(* Errors *)

NoError == [kind |-> "none", a_only |-> <<>>, b_only |-> <<>>, missing |-> <<>>]

\* ensure_same_columns comparing the column lists instead of the column sets
ensure_same_columns_ordered(fa, fb) ==
  LET set_a == columns(fa)
      set_b == columns(fb)
  IN  IF fa.cols # fb.cols
      THEN [kind |-> "SchemaMismatch",
            a_only |-> sorted(set_a \ set_b),
            b_only |-> sorted(set_b \ set_a),
            missing |-> <<>>]
      ELSE NoError

\* ensure_same_columns: the SystemExit it raises, or NoError
ensure_same_columns(fa, fb) ==
  LET set_a == columns(fa)
      set_b == columns(fb)
  IN  IF set_a # set_b
      THEN [kind |-> "SchemaMismatch",
            a_only |-> sorted(set_a \ set_b),
            b_only |-> sorted(set_b \ set_a),
            missing |-> <<>>]
      ELSE NoError

-----------------------------------------------------------------------------
(* Normalizer *)

\* str.strip on a cell of the model: the cells are drawn without blanks
strip(v) == v

trim_dataframe(df) ==
  [df EXCEPT !.rows = [i \in 1..Len(df.rows) |->
                         [c \in DOMAIN df.rows[i] |-> strip(df.rows[i][c])]]]

KeyOf(r, ks) == [i \in 1..Len(ks) |-> r[ks[i]]]

RECURSIVE KeyLess(_, _)
KeyLess(k1, k2) ==
  IF Len(k1) = 0 THEN FALSE
  ELSE IF k1[1] # k2[1] THEN CellLess(k1[1], k2[1])
  ELSE KeyLess(Tail(k1), Tail(k2))

\* insertion of r behind every row whose key is not greater: a stable sort
RECURSIVE InsertStable(_, _, _)
InsertStable(s, r, ks) ==
  IF s = <<>> THEN <<r>>
  ELSE IF KeyLess(KeyOf(r, ks), KeyOf(s[1], ks)) THEN <<r>> \o s
  ELSE <<s[1]>> \o InsertStable(Tail(s), r, ks)

RECURSIVE StableSortRows(_, _)
StableSortRows(s, ks) ==
  IF s = <<>> THEN <<>>
  ELSE InsertStable(StableSortRows(SubSeq(s, 1, Len(s) - 1), ks), s[Len(s)], ks)

sort_values(df, ks) == [df EXCEPT !.rows = StableSortRows(df.rows, ks)]

-----------------------------------------------------------------------------
(* Alignment engine: a.merge(b, on=keys, how='outer', indicator=True) *)

non_key_cols(df, ks) == SelectSeq(df.cols, LAMBDA c : c \notin Range(ks))

MergedColumns(fa, fb, ks) ==
  [i \in 1..Len(fa.cols) |->
     IF fa.cols[i] \in Range(ks) THEN fa.cols[i] ELSE AddSuffix(fa.cols[i], SUFFIX_A)]
  \o [i \in 1..Len(non_key_cols(fb, ks)) |-> AddSuffix(non_key_cols(fb, ks)[i], SUFFIX_B)]
  \o <<MERGE>>

\* one row of the merge: ra and rb are the two sides, ind the indicator
MergedRow(fa, fb, ks, ra, rb, ind) ==
  [c \in Range(MergedColumns(fa, fb, ks)) |->
     IF c = MERGE THEN ind
     ELSE IF c \in Range(ks) THEN (IF ind = "right_only" THEN rb[c] ELSE ra[c])
     ELSE IF endswith(c, SUFFIX_A) /\ CutSuffix(c) \in columns(fa)
       THEN (IF ind = "right_only" THEN NaN ELSE ra[CutSuffix(c)])
     ELSE (IF ind = "left_only" THEN NaN ELSE rb[CutSuffix(c)])]

\* the distinct key values of a sequence of rows, in order of first appearance
RECURSIVE DistinctKeys(_, _, _)
DistinctKeys(rows, ks, seen) ==
  IF rows = <<>> THEN seen
  ELSE LET k == KeyOf(rows[1], ks)
       IN  DistinctKeys(Tail(rows), ks,
                        IF k \in Range(seen) THEN seen ELSE Append(seen, k))

RowsWithKey(rows, ks, k) == SelectSeq(rows, LAMBDA r : KeyOf(r, ks) = k)

\* every combination of a left row and a right row, left-major
RECURSIVE PairRows(_, _, _, _, _)
PairRows(fa, fb, ks, la, lb) ==
  IF la = <<>> THEN <<>>
  ELSE [j \in 1..Len(lb) |-> MergedRow(fa, fb, ks, la[1], lb[j], "both")]
       \o PairRows(fa, fb, ks, Tail(la), lb)

\* GroupRows with the rows of a key paired by position instead of combined
GroupRows_zip(fa, fb, ks, k) ==
  LET la == RowsWithKey(fa.rows, ks, k)
      lb == RowsWithKey(fb.rows, ks, k)
  IN  IF lb = <<>>
        THEN [i \in 1..Len(la) |-> MergedRow(fa, fb, ks, la[i], la[i], "left_only")]
      ELSE IF la = <<>>
        THEN [j \in 1..Len(lb) |-> MergedRow(fa, fb, ks, lb[j], lb[j], "right_only")]
      ELSE [i \in 1..(IF Len(la) < Len(lb) THEN Len(la) ELSE Len(lb)) |->
              MergedRow(fa, fb, ks, la[i], lb[i], "both")]

\* the rows of the merge for one key value
GroupRows(fa, fb, ks, k) ==
  LET la == RowsWithKey(fa.rows, ks, k)
      lb == RowsWithKey(fb.rows, ks, k)
  IN  IF lb = <<>>
        THEN [i \in 1..Len(la) |-> MergedRow(fa, fb, ks, la[i], la[i], "left_only")]
      ELSE IF la = <<>>
        THEN [j \in 1..Len(lb) |-> MergedRow(fa, fb, ks, lb[j], lb[j], "right_only")]
      ELSE PairRows(fa, fb, ks, la, lb)

RECURSIVE MergeGroups(_, _, _, _)
MergeGroups(fa, fb, ks, groups) ==
  IF groups = <<>> THEN <<>>
  ELSE GroupRows(fa, fb, ks, groups[1]) \o MergeGroups(fa, fb, ks, Tail(groups))

\* merge_outer as a left join: keys that occur only on the right are dropped
merge_left(fa, fb, ks) ==
  [cols |-> MergedColumns(fa, fb, ks),
   rows |-> MergeGroups(fa, fb, ks, DistinctKeys(fa.rows, ks, <<>>))]

merge_outer(fa, fb, ks) ==
  [cols |-> MergedColumns(fa, fb, ks),
   rows |-> MergeGroups(fa, fb, ks, DistinctKeys(fa.rows \o fb.rows, ks, <<>>))]

-----------------------------------------------------------------------------
(* Classifier *)

\* Python's != on two cells: NaN differs from everything, itself included
PyNe(x, y) == isna(x) \/ isna(y) \/ x # y

\* StatusLoop without the test that skips a column null on both sides
RECURSIVE StatusLoop_noguard(_, _)
StatusLoop_noguard(row, cs) ==
  IF cs = <<>> THEN "SAME"
  ELSE LET ca == row[AddSuffix(cs[1], SUFFIX_A)]
           cb == row[AddSuffix(cs[1], SUFFIX_B)]
       IN  IF PyNe(ca, cb) THEN "UPDATED"
           ELSE StatusLoop_noguard(row, Tail(cs))

\* the loop of row_status over the non-key columns, in the order given
RECURSIVE StatusLoop(_, _)
StatusLoop(row, cs) ==
  IF cs = <<>> THEN "SAME"
  ELSE LET ca == row[AddSuffix(cs[1], SUFFIX_A)]
           cb == row[AddSuffix(cs[1], SUFFIX_B)]
       IN  IF isna(ca) /\ isna(cb) THEN StatusLoop(row, Tail(cs))
           ELSE IF PyNe(ca, cb) THEN "UPDATED"
           ELSE StatusLoop(row, Tail(cs))

row_status(row, cs) ==
  IF row[MERGE] = "left_only" THEN "DELETED"
  ELSE IF row[MERGE] = "right_only" THEN "INSERTED"
  ELSE StatusLoop(row, cs)

WithStatus(row, st) ==
  [c \in DOMAIN row \cup {STATUS} |-> IF c = STATUS THEN st ELSE row[c]]

build_combined(fa, fb, ks) ==
  LET merged == merge_outer(fa, fb, ks)
      nk == non_key_cols(fa, ks)
  IN  [cols |-> Append(merged.cols, STATUS),
       rows |-> [i \in 1..Len(merged.rows) |->
                   WithStatus(merged.rows[i], row_status(merged.rows[i], nk))]]

\* combined[combined['status'] == st]
WithStatusOf(df, st) ==
  [df EXCEPT !.rows = SelectSeq(df.rows, LAMBDA r : r[STATUS] = st)]

-----------------------------------------------------------------------------
(* Diff projector and CSV output *)

\* the position of the last column of cs whose name without suffix is c, or 0
RECURSIVE LastWithBase(_, _, _)
LastWithBase(cs, c, i) ==
  IF i = 0 THEN 0
  ELSE IF CutSuffix(cs[i]) = c THEN i
  ELSE LastWithBase(cs, c, i - 1)

_format_deleted_inserted(df, ks, source_suffix) ==
  LET cols_with_suffix == SelectSeq(df.cols, LAMBDA k : endswith(k, source_suffix))
      base_cols == [i \in 1..Len(cols_with_suffix) |-> CutSuffix(cols_with_suffix[i])]
      out_cols == ks \o base_cols
      OutRow(r) ==
        [c \in Range(out_cols) |->
           LET i == LastWithBase(cols_with_suffix, c, Len(cols_with_suffix))
           IN  IF i > 0 THEN r[cols_with_suffix[i]] ELSE r[c]]
  IN  [cols |-> out_cols,
       rows |-> [i \in 1..Len(df.rows) |-> OutRow(df.rows[i])]]

\* to_csv writes NaN as an empty field
CsvCell(v) == IF isna(v) THEN "" ELSE v

NoFile == [written |-> FALSE, header |-> <<>>, records |-> <<>>]

\* df.to_csv(path, index=False): the header line and one record per row
write_df(df) ==
  [written |-> TRUE,
   header |-> df.cols,
   records |-> [i \in 1..Len(df.rows) |->
                  [j \in 1..Len(df.cols) |-> CsvCell(df.rows[i][df.cols[j]])]]]

CsvNames == {"deleted", "inserted", "updated", "combined"}

\* WriteCsv with the combined file left for after the spreadsheet
WriteCsv_nocombined(del, ins, upd, comb, ks) ==
  LET deleted_out == IF ~empty(del) THEN _format_deleted_inserted(del, ks, SUFFIX_A) ELSE del
      inserted_out == IF ~empty(ins) THEN _format_deleted_inserted(ins, ks, SUFFIX_B) ELSE ins
  IN  [n \in CsvNames |->
         CASE n = "deleted" -> write_df(deleted_out)
           [] n = "inserted" -> write_df(inserted_out)
           [] n = "updated" -> write_df(upd)
           [] n = "combined" -> NoFile]

\* the four write_df calls of main
WriteCsv(del, ins, upd, comb, ks) ==
  LET deleted_out == IF ~empty(del) THEN _format_deleted_inserted(del, ks, SUFFIX_A) ELSE del
      inserted_out == IF ~empty(ins) THEN _format_deleted_inserted(ins, ks, SUFFIX_B) ELSE ins
  IN  [n \in CsvNames |->
         CASE n = "deleted" -> write_df(deleted_out)
           [] n = "inserted" -> write_df(inserted_out)
           [] n = "updated" -> write_df(upd)
           [] n = "combined" -> write_df(comb)]

-----------------------------------------------------------------------------
(* Text reporter *)

RECURSIVE Join(_, _)
Join(parts, sep) ==
  IF parts = <<>> THEN <<>>
  ELSE IF Len(parts) = 1 THEN parts[1]
  ELSE parts[1] \o <<sep>> \o Join(Tail(parts), sep)

\* the file names of the model have no directory part
basename(path) == path

RULE == <<"=*80">>
\* the separator ' → ' of a before/after line
ARROW == " -> "
DASH == <<"-*80">>

\* 'NULL' if pd.isna(val) else str(val)
NullStr(v) == IF isna(v) THEN "NULL" ELSE v

\* one DELETED or INSERTED row: col=value pairs joined by ' | '
PairsLine(df, r) ==
  Join([j \in 1..Len(df.cols) |-> df.cols[j] \o <<"=", NullStr(r[df.cols[j]])>>], " | ")

\* f"{k}={row.get(k, 'NULL')}": a NaN key is formatted as nan
KeyLine(r, ks) ==
  <<"Key: ">> \o Join([i \in 1..Len(ks) |->
                         ks[i] \o <<"=", IF isna(r[ks[i]]) THEN "nan" ELSE r[ks[i]]>>], " | ")

\* DiffLines without the test that skips a column null on both sides
RECURSIVE DiffLines_noguard(_, _, _)
DiffLines_noguard(df, r, cs) ==
  IF cs = <<>> THEN <<>>
  ELSE LET col_a == cs[1]
           base == CutSuffix(col_a)
           col_b == AddSuffix(base, SUFFIX_B)
           rest == DiffLines_noguard(df, r, Tail(cs))
       IN  IF col_b \notin columns(df) THEN rest
           ELSE IF PyNe(r[col_a], r[col_b])
             THEN <<<<"  ">> \o base \o <<": ", NullStr(r[col_a]), ARROW, NullStr(r[col_b])>>>> \o rest
           ELSE rest

\* the before -> after lines of one UPDATED row, over the sorted _a columns
RECURSIVE DiffLines(_, _, _)
DiffLines(df, r, cs) ==
  IF cs = <<>> THEN <<>>
  ELSE LET col_a == cs[1]
           base == CutSuffix(col_a)
           col_b == AddSuffix(base, SUFFIX_B)
           rest == DiffLines(df, r, Tail(cs))
       IN  IF col_b \notin columns(df) THEN rest
           ELSE IF isna(r[col_a]) /\ isna(r[col_b]) THEN rest
           ELSE IF PyNe(r[col_a], r[col_b])
             THEN <<<<"  ">> \o base \o <<": ", NullStr(r[col_a]), ARROW, NullStr(r[col_b])>>>> \o rest
           ELSE rest

RECURSIVE UpdatedLines(_, _, _)
UpdatedLines(df, rows, ks) ==
  IF rows = <<>> THEN <<>>
  ELSE <<<<>>, KeyLine(rows[1], ks)>>
       \o DiffLines(df, rows[1], sorted({c \in columns(df) : endswith(c, SUFFIX_A)}))
       \o UpdatedLines(df, Tail(rows), ks)

NoSection == [title |-> <<>>, rows |-> <<>>]

NoReport == [written |-> FALSE, head |-> <<>>, deleted |-> NoSection,
             inserted |-> NoSection, updated |-> NoSection]

write_report(del, ins, upd, ks, total_a, total_b, same_count, a_name, b_name) ==
  [written |-> TRUE,
   head |->
     << <<>>, RULE, <<"TABLE COMPARISON REPORT (Reference vs Compare-to)">>, RULE,
        <<"Primary Key Columns: ">> \o (IF ks # <<>> THEN Join(ks, ", ") ELSE <<"None">>),
        <<"Reference (A): ", IF a_name # "" THEN basename(a_name) ELSE "Reference (A)">>,
        <<"Compare-to (B): ", IF b_name # "" THEN basename(b_name) ELSE "Compare-to (B)">>,
        <<"Total Rows in Reference (A): ", ToString(total_a)>>,
        <<"Total Rows in Compare-to (B): ", ToString(total_b)>>,
        <<"Identical Rows: ", ToString(same_count)>>,
        <<"Deleted Rows: ", ToString(len(del))>>,
        <<"Inserted Rows: ", ToString(len(ins))>>,
        <<"Updated Rows: ", ToString(len(upd))>>,
        RULE, <<>> >>,
   deleted |->
     IF ~empty(del)
       THEN [title |-> << <<>>, DASH,
                          IF a_name # ""
                            THEN <<"ONLY IN ", basename(a_name), ": ", ToString(len(del)), " row(s)">>
                            ELSE <<"DELETED: ", ToString(len(del)),
                                   " row(s) only in Reference (removed from Compare-to)">>,
                          DASH >>,
             rows |-> [i \in 1..Len(del.rows) |-> PairsLine(del, del.rows[i])]]
       ELSE NoSection,
   inserted |->
     IF ~empty(ins)
       THEN [title |-> << <<>>, DASH,
                          IF b_name # ""
                            THEN <<"ONLY IN ", basename(b_name), ": ", ToString(len(ins)), " row(s)">>
                            ELSE <<"INSERTED: ", ToString(len(ins)),
                                   " row(s) only in Compare-to (new rows)">>,
                          DASH >>,
             rows |-> [i \in 1..Len(ins.rows) |-> PairsLine(ins, ins.rows[i])]]
       ELSE NoSection,
   updated |->
     IF ~empty(upd)
       THEN [title |-> << <<>>, DASH,
                          <<"DIFFERENT: ", ToString(len(upd)), " row(s) with changed values">>,
                          DASH >>,
             rows |-> IF ks # <<>> THEN UpdatedLines(upd, upd.rows, ks) ELSE <<>>]
       ELSE NoSection]

Max(x, y) == IF x >= y THEN x ELSE y

-----------------------------------------------------------------------------
(* Side-by-side renderer *)

NO_FILL == "none"
yellow_fill == "FFFF00"
orange_fill == "FFA500"

\* row.get(col): None when the row has no such column
Get(r, c) == IF c \in DOMAIN r THEN r[c] ELSE NaN

\* OrderedRows with the DELETED group ahead of the UPDATED group
OrderedRows_swapped(comb) ==
  WithStatusOf(comb, "SAME").rows \o WithStatusOf(comb, "DELETED").rows
  \o WithStatusOf(comb, "UPDATED").rows \o WithStatusOf(comb, "INSERTED").rows

\* the rows of the Comparison sheet from grid row 3 downward, in this order
OrderedRows(comb) ==
  WithStatusOf(comb, "SAME").rows \o WithStatusOf(comb, "UPDATED").rows
  \o WithStatusOf(comb, "DELETED").rows \o WithStatusOf(comb, "INSERTED").rows

\* GridRow with the left cells of a DELETED row left without a fill
GridRow_unfilled(row, cols_a, cols_b, ks) ==
  LET status == row[STATUS]
      a_row == [c \in Range(cols_a) |->
                  IF c \in Range(ks) THEN Get(row, c) ELSE Get(row, AddSuffix(c, SUFFIX_A))]
      b_row == [c \in Range(cols_b) |->
                  IF c \in Range(ks) THEN Get(row, c) ELSE Get(row, AddSuffix(c, SUFFIX_B))]
      Shown(x, y) ==
        LET val == IF isna(x) /\ status = "SAME" THEN y ELSE x
        IN  IF isna(val) THEN "" ELSE val
  IN  [left |->
         [i \in 1..Len(cols_a) |->
            IF status \in {"DELETED", "SAME", "UPDATED"}
              THEN [value |-> Shown(a_row[cols_a[i]], b_row[cols_a[i]]),
                    fill |-> IF status = "UPDATED" THEN yellow_fill
                             ELSE NO_FILL]
              ELSE [value |-> "", fill |-> NO_FILL]],
       status |->
         [value |-> status,
          fill |-> IF status = "UPDATED" THEN yellow_fill
                   ELSE IF status \in {"DELETED", "INSERTED"} THEN orange_fill
                   ELSE NO_FILL],
       right |->
         [i \in 1..Len(cols_b) |->
            IF status \in {"INSERTED", "SAME", "UPDATED"}
              THEN [value |-> Shown(b_row[cols_b[i]], a_row[cols_b[i]]),
                    fill |-> IF status = "INSERTED" THEN orange_fill
                             ELSE IF status = "UPDATED" THEN yellow_fill
                             ELSE NO_FILL]
              ELSE [value |-> "", fill |-> NO_FILL]]]

\* one data row of the grid: the left block, the Status cell, the right block
GridRow(row, cols_a, cols_b, ks) ==
  LET status == row[STATUS]
      a_row == [c \in Range(cols_a) |->
                  IF c \in Range(ks) THEN Get(row, c) ELSE Get(row, AddSuffix(c, SUFFIX_A))]
      b_row == [c \in Range(cols_b) |->
                  IF c \in Range(ks) THEN Get(row, c) ELSE Get(row, AddSuffix(c, SUFFIX_B))]
      Shown(x, y) ==
        LET val == IF isna(x) /\ status = "SAME" THEN y ELSE x
        IN  IF isna(val) THEN "" ELSE val
  IN  [left |->
         [i \in 1..Len(cols_a) |->
            IF status \in {"DELETED", "SAME", "UPDATED"}
              THEN [value |-> Shown(a_row[cols_a[i]], b_row[cols_a[i]]),
                    fill |-> IF status = "DELETED" THEN orange_fill
                             ELSE IF status = "UPDATED" THEN yellow_fill
                             ELSE NO_FILL]
              ELSE [value |-> "", fill |-> NO_FILL]],
       status |->
         [value |-> status,
          fill |-> IF status = "UPDATED" THEN yellow_fill
                   ELSE IF status \in {"DELETED", "INSERTED"} THEN orange_fill
                   ELSE NO_FILL],
       right |->
         [i \in 1..Len(cols_b) |->
            IF status \in {"INSERTED", "SAME", "UPDATED"}
              THEN [value |-> Shown(b_row[cols_b[i]], a_row[cols_b[i]]),
                    fill |-> IF status = "INSERTED" THEN orange_fill
                             ELSE IF status = "UPDATED" THEN yellow_fill
                             ELSE NO_FILL]
              ELSE [value |-> "", fill |-> NO_FILL]]]

NoExcel ==
  [written |-> FALSE, header1 |-> <<>>, header2 |-> <<>>, rows |-> <<>>,
   summary |-> [a_label |-> "", b_label |-> "", total_a |-> 0, total_b |-> 0,
                same |-> 0, updated |-> 0, deleted |-> 0, inserted |-> 0],
   filter_rows |-> <<0, 0>>]

\* the workbook saved by write_excel_sidebyside when openpyxl is available
\* (borders, fonts, column widths and the fixed Legend sheet are left out)
write_excel_sidebyside(fa, fb, comb, ks, a_name, b_name) ==
  LET cols_a == fa.cols
      cols_b == fa.cols
      a_label == IF a_name # "" THEN basename(a_name) ELSE "Reference (A)"
      b_label == IF b_name # "" THEN basename(b_name) ELSE "Compare to (B)"
      ordered == OrderedRows(comb)
      row_num == 3 + Len(ordered)
  IN  [written |-> TRUE,
       header1 |-> <<"--- ", a_label, " ---", "--- Status ---", "--- ", b_label, " ---">>,
       header2 |-> cols_a \o <<<<"Status">>>> \o cols_b,
       rows |-> [i \in 1..Len(ordered) |-> GridRow(ordered[i], cols_a, cols_b, ks)],
       summary |->
         [a_label |-> IF a_name # "" THEN basename(a_name) ELSE "Reference (A)",
          b_label |-> IF b_name # "" THEN basename(b_name) ELSE "Compare-to (B)",
          total_a |-> len(fa),
          total_b |-> len(fb),
          same |-> len(WithStatusOf(comb, "SAME")),
          updated |-> len(WithStatusOf(comb, "UPDATED")),
          deleted |-> len(WithStatusOf(comb, "DELETED")),
          inserted |-> len(WithStatusOf(comb, "INSERTED"))],
       filter_rows |-> <<2, row_num - 1>>]

-----------------------------------------------------------------------------
(* Inputs *)

ID == <<"id">>
V == <<"v">>
W == <<"w">>
ZZ == <<"zz">>
K_A == <<"k", "_a">>
Blank == <<>>

KeyGiven(ks) == [given |-> TRUE, names |-> ks]
KeyDefault == [given |-> FALSE, names |-> <<>>]

\* cols1/cols2: the columns of the two files; key: --key; idv/nv: the cells
\* drawn for the identifying column and for the other columns; nanid: the
\* identifying cells of the rows in which another cell may be NaN; max1/max2:
\* the row bounds of the two files.  The first scenario has frames of several
\* rows over few distinct rows, the others one-row frames over all rows.
Scenarios ==
  { [cols1 |-> <<ID, V>>, cols2 |-> <<ID, V>>, key |-> KeyGiven(<<ID>>),
     idv |-> {NaN, "a", "b"}, nv |-> {NaN, "a"}, nanid |-> {"a"},
     max1 |-> MaxRows1, max2 |-> MaxRows2],
    [cols1 |-> <<ID, V>>, cols2 |-> <<V, ID>>, key |-> KeyGiven(<<ID, Blank>>),
     idv |-> {NaN, "a", "b"}, nv |-> {NaN, "a", "b"}, nanid |-> {NaN, "a", "b"},
     max1 |-> SmallRows, max2 |-> SmallRows],
    [cols1 |-> <<ID, V, W>>, cols2 |-> <<ID, W, V>>, key |-> KeyGiven(<<ID>>),
     idv |-> {"a"}, nv |-> {NaN, "a", "b"}, nanid |-> {"a"},
     max1 |-> SmallRows, max2 |-> SmallRows],
    [cols1 |-> <<ID, V>>, cols2 |-> <<ID, V>>, key |-> KeyDefault,
     idv |-> {"a", "b"}, nv |-> {NaN, "a"}, nanid |-> {"a", "b"},
     max1 |-> SmallRows, max2 |-> SmallRows],
    [cols1 |-> <<K_A, V>>, cols2 |-> <<K_A, V>>, key |-> KeyGiven(<<K_A>>),
     idv |-> {"a", "b"}, nv |-> {"a"}, nanid |-> {},
     max1 |-> SmallRows, max2 |-> SmallRows],
    [cols1 |-> <<ID, V>>, cols2 |-> <<ID, W>>, key |-> KeyGiven(<<ID>>),
     idv |-> {"a"}, nv |-> {"a"}, nanid |-> {},
     max1 |-> SmallRows, max2 |-> SmallRows],
    [cols1 |-> <<ID, V>>, cols2 |-> <<ID>>, key |-> KeyGiven(<<ID>>),
     idv |-> {"a"}, nv |-> {"a"}, nanid |-> {},
     max1 |-> SmallRows, max2 |-> SmallRows],
    [cols1 |-> <<ID>>, cols2 |-> <<V, ID>>, key |-> KeyGiven(<<ZZ>>),
     idv |-> {"a"}, nv |-> {"a"}, nanid |-> {},
     max1 |-> SmallRows, max2 |-> SmallRows],
    [cols1 |-> <<ID, V>>, cols2 |-> <<ID, V>>, key |-> KeyGiven(<<ZZ>>),
     idv |-> {"a"}, nv |-> {NaN, "a"}, nanid |-> {"a"},
     max1 |-> SmallRows, max2 |-> SmallRows],
    [cols1 |-> <<ID, V>>, cols2 |-> <<V, ID>>, key |-> KeyGiven(<<ZZ, ID, W>>),
     idv |-> {"a"}, nv |-> {"a"}, nanid |-> {},
     max1 |-> SmallRows, max2 |-> SmallRows] }

IdCols == {ID, K_A}

RowsOver(cols, sc) ==
  {r \in [Range(cols) -> sc.idv \cup sc.nv] :
     \A c \in Range(cols) :
       IF c \in IdCols THEN r[c] \in sc.idv
       ELSE /\ r[c] \in sc.nv
            /\ isna(r[c]) => \A d \in Range(cols) \cap IdCols : r[d] \in sc.nanid}

SeqsUpTo(S, n) == UNION {[1..k -> S] : k \in 0..n}

FramesOver(cols, sc, n) ==
  {[cols |-> cols, rows |-> rs] : rs \in SeqsUpTo(RowsOver(cols, sc), n)}

\* read_csv of the two paths
InputPairs ==
  UNION {{<<f1, f2>> : f1 \in FramesOver(sc.cols1, sc, sc.max1),
                       f2 \in FramesOver(sc.cols2, sc, sc.max2)} \X {sc.key}
         : sc \in Scenarios}

-----------------------------------------------------------------------------
(* main *)

Init ==
  /\ pc = "start"
  /\ a = EmptyFrame
  /\ b = EmptyFrame
  /\ a_path = "file1"
  /\ b_path = "file2"
  /\ args_key = KeyDefault
  /\ keys = <<>>
  /\ combined = EmptyFrame
  /\ deleted = EmptyFrame
  /\ inserted = EmptyFrame
  /\ updated = EmptyFrame
  /\ err = NoError
  /\ csv = [n \in CsvNames |-> NoFile]
  /\ args_report = "unread"
  /\ report = NoReport
  /\ args_excel = "unread"
  /\ OPENPYXL_AVAILABLE = "unread"
  /\ excel = NoExcel
  /\ perm_a = EmptyFrame
  /\ perm_b = EmptyFrame
  /\ perm_combined = EmptyFrame

\* parse_args, read_csv and trim_dataframe of both files
ReadInputs ==
  /\ pc = "start"
  /\ \E inp \in InputPairs :
       /\ len(inp[1][1]) + len(inp[1][2]) > 0
       /\ a' = trim_dataframe(inp[1][1])
       /\ b' = trim_dataframe(inp[1][2])
       /\ args_key' = inp[2]
  /\ pc' = "swap"
  /\ UNCHANGED <<a_path, b_path, keys, combined, deleted, inserted, updated, err, outs>>

\* SwapIfLarger exchanging the tables and leaving the paths as given
SwapIfLarger_tables ==
  /\ pc = "swap"
  /\ IF len(b) > len(a)
       THEN /\ a' = b
            /\ b' = a
            /\ UNCHANGED <<a_path, b_path>>
       ELSE UNCHANGED <<a, b, a_path, b_path>>
  /\ pc' = "columns"
  /\ UNCHANGED <<args_key, keys, combined, deleted, inserted, updated, err, outs>>

\* the larger table becomes the reference
SwapIfLarger ==
  /\ pc = "swap"
  /\ IF len(b) > len(a)
       THEN /\ a' = b
            /\ b' = a
            /\ a_path' = b_path
            /\ b_path' = a_path
       ELSE UNCHANGED <<a, b, a_path, b_path>>
  /\ pc' = "columns"
  /\ UNCHANGED <<args_key, keys, combined, deleted, inserted, updated, err, outs>>

CheckColumns ==
  /\ pc = "columns"
  /\ err' = ensure_same_columns(a, b)
  /\ pc' = IF err'.kind = "none" THEN "keys" ELSE "failed"
  /\ UNCHANGED <<a, b, a_path, b_path, args_key, keys, combined, deleted,
                 inserted, updated, outs>>

\* [k.strip() for k in args.key.split(',') if k.strip()]
SplitKey(names) == SelectSeq(names, LAMBDA k : k # Blank)

MissingIn(ks, df) == SelectSeq(ks, LAMBDA k : k \notin columns(df))

\* DetermineKeys falling back to all columns when a requested key is missing
DetermineKeys_fallback ==
  /\ pc = "keys"
  /\ keys' = IF args_key.given /\ MissingIn(SplitKey(args_key.names), a) = <<>>
               THEN SplitKey(args_key.names) ELSE a.cols
  /\ pc' = "sort"
  /\ UNCHANGED <<a, b, a_path, b_path, args_key, combined, deleted, inserted, updated,
                 err, outs>>

DetermineKeys ==
  /\ pc = "keys"
  /\ IF args_key.given
       THEN LET ks == SplitKey(args_key.names)
                missing_in_a == MissingIn(ks, a)
                missing_in_b == MissingIn(ks, b)
            IN  IF missing_in_a # <<>> \/ missing_in_b # <<>>
                  THEN /\ err' = [NoError EXCEPT !.kind = "KeyColumnNotFound",
                                    !.missing = IF missing_in_a # <<>>
                                                  THEN missing_in_a ELSE missing_in_b]
                       /\ pc' = "failed"
                       /\ UNCHANGED keys
                  ELSE /\ keys' = ks
                       /\ pc' = "sort"
                       /\ UNCHANGED err
       ELSE /\ keys' = a.cols
            /\ pc' = "sort"
            /\ UNCHANGED err
  /\ UNCHANGED <<a, b, a_path, b_path, args_key, combined, deleted, inserted, updated, outs>>

\* if keys: df.sort_values(by=keys, kind='stable').reset_index(drop=True)
SortByKeys(df, ks) == IF ks # <<>> THEN sort_values(df, ks) ELSE df

SortFrames ==
  /\ pc = "sort"
  /\ a' = SortByKeys(a, keys)
  /\ b' = SortByKeys(b, keys)
  /\ pc' = "build"
  /\ UNCHANGED <<a_path, b_path, args_key, keys, combined, deleted, inserted,
                 updated, err, outs>>

BuildAndSplit ==
  /\ pc = "build"
  /\ combined' = build_combined(a, b, keys)
  /\ deleted' = WithStatusOf(combined', "DELETED")
  /\ inserted' = WithStatusOf(combined', "INSERTED")
  /\ updated' = WithStatusOf(combined', "UPDATED")
  /\ pc' = "write"
  /\ UNCHANGED <<a, b, a_path, b_path, args_key, keys, err, outs>>

data == <<a, b, a_path, b_path, args_key, keys, combined, deleted, inserted, updated, perm>>

WriteCsvFiles ==
  /\ pc = "write"
  /\ csv' = WriteCsv(deleted, inserted, updated, combined, keys)
  /\ pc' = "report"
  /\ UNCHANGED <<data, err, args_report, report, args_excel, OPENPYXL_AVAILABLE, excel>>

\* --report given
WriteReport ==
  /\ pc = "report"
  /\ args_report' = "yes"
  /\ LET total_a == len(a)
         total_b == len(b)
         same_count == Max(0, total_a - len(deleted) - len(updated))
     IN  report' = write_report(deleted, inserted, updated, keys, total_a, total_b,
                                same_count, a_path, b_path)
  /\ pc' = "excel"
  /\ UNCHANGED <<data, err, csv, args_excel, OPENPYXL_AVAILABLE, excel>>

\* --report not given
SkipReport ==
  /\ pc = "report"
  /\ args_report' = "no"
  /\ pc' = "excel"
  /\ UNCHANGED <<data, err, csv, report, args_excel, OPENPYXL_AVAILABLE, excel>>

\* --excel given, openpyxl imported
WriteExcel ==
  /\ pc = "excel"
  /\ args_excel' = "yes"
  /\ OPENPYXL_AVAILABLE' = "yes"
  /\ excel' = write_excel_sidebyside(a, b, combined, keys, a_path, b_path)
  /\ pc' = "done"
  /\ UNCHANGED <<data, err, csv, args_report, report>>

\* --excel given, the import of openpyxl failed
ExcelUnavailable ==
  /\ pc = "excel"
  /\ args_excel' = "yes"
  /\ OPENPYXL_AVAILABLE' = "no"
  /\ err' = [NoError EXCEPT !.kind = "RenderBackendUnavailable"]
  /\ pc' = "failed"
  /\ UNCHANGED <<data, csv, args_report, report, excel>>

\* --excel not given
SkipExcel ==
  /\ pc = "excel"
  /\ args_excel' = "no"
  /\ pc' = "done"
  /\ UNCHANGED <<data, err, csv, args_report, report, OPENPYXL_AVAILABLE, excel>>

Next ==
  \/ ReadInputs
  \/ SwapIfLarger
  \/ CheckColumns
  \/ DetermineKeys
  \/ SortFrames
  \/ BuildAndSplit
  \/ WriteCsvFiles
  \/ WriteReport
  \/ SkipReport
  \/ WriteExcel
  \/ ExcelUnavailable
  \/ SkipExcel

Spec == Init /\ [][Next]_vars

-----------------------------------------------------------------------------
(* The comparison pipeline of main on reordered inputs *)

\* sort both frames by the key, then build_combined
Pipeline(fa, fb, ks) == build_combined(SortByKeys(fa, ks), SortByKeys(fb, ks), ks)

Min(x, y) == IF x <= y THEN x ELSE y

SwapRows(df, i) ==
  [df EXCEPT !.rows = [j \in 1..Len(df.rows) |->
                         IF j = i THEN df.rows[i + 1]
                         ELSE IF j = i + 1 THEN df.rows[i]
                         ELSE df.rows[j]]]

\* two datasets with the same columns and a key of theirs; perm_a and perm_b
\* start as the originals
InitPerm ==
  /\ pc = "perm"
  /\ \E sc \in Scenarios :
       /\ Range(sc.cols1) = Range(sc.cols2)
       /\ args_key = sc.key
       /\ keys = IF sc.key.given THEN SplitKey(sc.key.names) ELSE sc.cols1
       /\ Range(keys) \subseteq Range(sc.cols1)
       /\ a \in FramesOver(sc.cols1, sc, Min(sc.max1, PermRows))
       /\ b \in FramesOver(sc.cols2, sc, Min(sc.max2, PermRows))
  /\ len(a) + len(b) > 0
  /\ perm_a = a
  /\ perm_b = b
  /\ perm_combined = EmptyFrame
  /\ a_path = "file1"
  /\ b_path = "file2"
  /\ combined = EmptyFrame
  /\ deleted = EmptyFrame
  /\ inserted = EmptyFrame
  /\ updated = EmptyFrame
  /\ err = NoError
  /\ csv = [n \in CsvNames |-> NoFile]
  /\ args_report = "unread"
  /\ report = NoReport
  /\ args_excel = "unread"
  /\ OPENPYXL_AVAILABLE = "unread"
  /\ excel = NoExcel

PermuteA ==
  /\ pc = "perm"
  /\ \E i \in 1..(len(perm_a) - 1) : perm_a' = SwapRows(perm_a, i)
  /\ UNCHANGED <<pc, a, b, a_path, b_path, args_key, keys, combined, deleted, inserted,
                 updated, err, csv, args_report, report, args_excel,
                 OPENPYXL_AVAILABLE, excel, perm_b, perm_combined>>

PermuteB ==
  /\ pc = "perm"
  /\ \E i \in 1..(len(perm_b) - 1) : perm_b' = SwapRows(perm_b, i)
  /\ UNCHANGED <<pc, a, b, a_path, b_path, args_key, keys, combined, deleted, inserted,
                 updated, err, csv, args_report, report, args_excel,
                 OPENPYXL_AVAILABLE, excel, perm_a, perm_combined>>

\* the pipeline run on the originals and on the reordered datasets
ComparePermuted ==
  /\ pc = "perm"
  /\ combined' = Pipeline(a, b, keys)
  /\ deleted' = WithStatusOf(combined', "DELETED")
  /\ inserted' = WithStatusOf(combined', "INSERTED")
  /\ updated' = WithStatusOf(combined', "UPDATED")
  /\ perm_combined' = Pipeline(perm_a, perm_b, keys)
  /\ pc' = "compared"
  /\ UNCHANGED <<a, b, a_path, b_path, args_key, keys, err, csv, args_report, report,
                 args_excel, OPENPYXL_AVAILABLE, excel, perm_a, perm_b>>

NextPerm ==
  \/ PermuteA
  \/ PermuteB
  \/ ComparePermuted

SpecPerm == InitPerm /\ [][NextPerm]_vars

-----------------------------------------------------------------------------
(* Properties *)

\* build_combined has run: a and b are sorted, combined is classified and split
Built == pc \in {"write", "report", "excel", "done"}
         \/ (pc = "failed" /\ err.kind = "RenderBackendUnavailable")

NothingWritten ==
  /\ \A n \in CsvNames : ~csv[n].written
  /\ ~report.written
  /\ ~excel.written

\* the row of A (of B) that an aligned row carries
BeforeSide(m) ==
  [c \in columns(a) |-> IF c \in Range(keys) THEN m[c] ELSE m[AddSuffix(c, SUFFIX_A)]]
AfterSide(m) ==
  [c \in columns(b) |-> IF c \in Range(keys) THEN m[c] ELSE m[AddSuffix(c, SUFFIX_B)]]

SameRows == WithStatusOf(combined, "SAME").rows

InBefore(r, rows) == \E i \in 1..Len(rows) : BeforeSide(rows[i]) = r
InAfter(r, rows) == \E i \in 1..Len(rows) : AfterSide(rows[i]) = r

Count3(x, y, z) == (IF x THEN 1 ELSE 0) + (IF y THEN 1 ELSE 0) + (IF z THEN 1 ELSE 0)

SetsOfA(r) == Count3(InBefore(r, deleted.rows), InBefore(r, updated.rows), InBefore(r, SameRows))
SetsOfB(r) == Count3(InAfter(r, inserted.rows), InAfter(r, updated.rows), InAfter(r, SameRows))

KeyCount(df, k) == Cardinality({i \in 1..len(df) : KeyOf(df.rows[i], keys) = k})

\* C1 as stated: every row of A is in exactly one of Deleted, Updated (before
\* side), Same, and every row of B in exactly one of Inserted, Updated (after
\* side), Same, duplicate key values included.
C1_ExactlyOneSet ==
  Built => /\ \A i \in 1..len(a) : SetsOfA(a.rows[i]) = 1
           /\ \A j \in 1..len(b) : SetsOfB(b.rows[j]) = 1

\* C1 amended: every row of A and of B is in at least one of its three sets;
\* a row of Deleted or Inserted is in no other set; a row is in exactly one
\* set when its key value occurs at most once in the other dataset (with a
\* key repeated on the other side it can be in both Updated and Same).
C1_Completeness ==
  Built =>
    /\ \A i \in 1..len(a) :
         LET r == a.rows[i] IN
         /\ SetsOfA(r) >= 1
         /\ InBefore(r, deleted.rows) => SetsOfA(r) = 1
         /\ KeyCount(b, KeyOf(r, keys)) <= 1 => SetsOfA(r) = 1
    /\ \A j \in 1..len(b) :
         LET r == b.rows[j] IN
         /\ SetsOfB(r) >= 1
         /\ InAfter(r, inserted.rows) => SetsOfB(r) = 1
         /\ KeyCount(a, KeyOf(r, keys)) <= 1 => SetsOfB(r) = 1

\* a key repeated in A, and a row of B paired with both an equal and a
\* different row of A
C1_Witness ==
  /\ Built
  /\ \E j \in 1..len(b) :
       /\ KeyCount(a, KeyOf(b.rows[j], keys)) >= 2
       /\ InAfter(b.rows[j], updated.rows)
       /\ InAfter(b.rows[j], SameRows)
  /\ \E i \in 1..len(a) : InBefore(a.rows[i], deleted.rows)

\* null-aware equality of two cells
NullEq(x, y) == (isna(x) /\ isna(y)) \/ (~isna(x) /\ ~isna(y) /\ x = y)

Reverse(s) == [i \in 1..Len(s) |-> s[Len(s) + 1 - i]]

\* C3: an aligned row present on both sides is UPDATED iff some non-key column
\* has before/after cells unequal under null-aware equality, SAME otherwise,
\* and examining the non-key columns in the opposite order gives the same.
C3_NullAwareStatus ==
  Built =>
    \A i \in 1..len(combined) :
      LET m == combined.rows[i]
          nk == non_key_cols(a, keys)
          differs == \E c \in Range(nk) :
                       ~NullEq(m[AddSuffix(c, SUFFIX_A)], m[AddSuffix(c, SUFFIX_B)])
      IN  m[MERGE] = "both" =>
            /\ m[STATUS] = (IF differs THEN "UPDATED" ELSE "SAME")
            /\ row_status(m, Reverse(nk)) = m[STATUS]

\* two non-key columns: the first null on both sides, the second null on one
C3_Witness ==
  /\ Built
  /\ \E i \in 1..len(combined) :
       LET m == combined.rows[i] IN
       /\ m[STATUS] = "UPDATED"
       /\ Len(non_key_cols(a, keys)) = 2
       /\ isna(m[AddSuffix(V, SUFFIX_A)]) /\ isna(m[AddSuffix(V, SUFFIX_B)])
       /\ isna(m[AddSuffix(W, SUFFIX_A)]) /\ ~isna(m[AddSuffix(W, SUFFIX_B)])

PastColumnCheck == pc \notin {"start", "swap", "columns"}

\* C4: when the column sets differ the run has failed with SchemaMismatch,
\* the error names the columns only in A and the columns only in B in two
\* separate lists, and no output file exists; when the sets are equal,
\* whatever the column order, the check passes.
C4_SchemaMismatch ==
  /\ (pc # "start" /\ columns(a) # columns(b)) => NothingWritten
  /\ (PastColumnCheck /\ columns(a) # columns(b)) =>
       /\ pc = "failed"
       /\ err.kind = "SchemaMismatch"
       /\ Range(err.a_only) = columns(a) \ columns(b)
       /\ Range(err.b_only) = columns(b) \ columns(a)
       /\ Len(err.a_only) = Cardinality(columns(a) \ columns(b))
       /\ Len(err.b_only) = Cardinality(columns(b) \ columns(a))
  /\ (PastColumnCheck /\ columns(a) = columns(b)) => err.kind # "SchemaMismatch"

C4_Witness ==
  /\ pc = "failed"
  /\ err.kind = "SchemaMismatch"
  /\ err.a_only # <<>>
  /\ err.b_only # <<>>

C4_WitnessOrder ==
  /\ pc = "keys"
  /\ a.cols # b.cols
  /\ columns(a) = columns(b)

Requested == SplitKey(args_key.names)

\* a requested key column is in neither dataset
KeyAbsent ==
  /\ pc # "start"
  /\ args_key.given
  /\ \E k \in Range(Requested) : k \notin columns(a) \cup columns(b)

\* C5 as stated: whenever a requested key column is absent, the run fails with
\* the error that lists exactly the missing key columns.
C5_AlwaysKeyError ==
  (KeyAbsent /\ pc = "failed") =>
    /\ err.kind = "KeyColumnNotFound"
    /\ Range(err.missing) = {k \in Range(Requested) : k \notin columns(a)}

\* C5 amended: whenever a requested key column is absent and the two datasets
\* have the same column set, the run fails with the error that lists exactly
\* the missing key columns (with different column sets it fails earlier, on
\* the schema mismatch); in every run with an absent key column the run never
\* gets to sort, align or write a file, and no key is ever selected.
C5_FailFastKey ==
  KeyAbsent =>
    /\ pc \in {"swap", "columns", "keys", "failed"}
    /\ keys = <<>>
    /\ combined = EmptyFrame
    /\ NothingWritten
    /\ (pc = "failed" /\ columns(a) = columns(b)) =>
         /\ err.kind = "KeyColumnNotFound"
         /\ Range(err.missing) = {k \in Range(Requested) : k \notin columns(a)}
    /\ (pc = "failed" /\ columns(a) # columns(b)) => err.kind = "SchemaMismatch"

\* a key list with one present and two absent columns
C5_Witness ==
  /\ pc = "failed"
  /\ err.kind = "KeyColumnNotFound"
  /\ Len(err.missing) = 2
  /\ \E k \in Range(Requested) : k \in columns(a)

\* C6: when the spreadsheet is requested and openpyxl is unavailable, the four
\* CSV files, and the report if it was requested, are written by the time the
\* spreadsheet step fails, and only the spreadsheet is missing.
C6_ExcelFailureIsolated ==
  (args_excel = "yes" /\ OPENPYXL_AVAILABLE = "no") =>
    /\ pc = "failed"
    /\ err.kind = "RenderBackendUnavailable"
    /\ \A n \in CsvNames : csv[n].written
    /\ (args_report = "yes") <=> report.written
    /\ ~excel.written

C6_Witness ==
  /\ pc = "failed"
  /\ err.kind = "RenderBackendUnavailable"
  /\ args_report = "yes"
  /\ report.written
  /\ len(deleted) > 0

SeqToBag(s) == [x \in Range(s) |-> Cardinality({i \in DOMAIN s : s[i] = x})]

\* C2: the pipeline of main (stable sort by the key, build_combined, split by
\* status) run on any reordering of A's rows and of B's rows gives the same
\* counts of SAME, UPDATED, DELETED and INSERTED rows and the same rows, each
\* as often, in Deleted, Inserted and Updated as on the original orders.
C2_ReorderingStable ==
  pc = "compared" =>
    /\ perm_combined.cols = combined.cols
    /\ \A st \in {"SAME", "UPDATED", "DELETED", "INSERTED"} :
         len(WithStatusOf(perm_combined, st)) = len(WithStatusOf(combined, st))
    /\ SeqToBag(WithStatusOf(perm_combined, "DELETED").rows) = SeqToBag(deleted.rows)
    /\ SeqToBag(WithStatusOf(perm_combined, "INSERTED").rows) = SeqToBag(inserted.rows)
    /\ SeqToBag(WithStatusOf(perm_combined, "UPDATED").rows) = SeqToBag(updated.rows)

\* both datasets reordered, rows of one key among them, so that the UPDATED
\* rows come out in another order
C2_Witness ==
  /\ pc = "compared"
  /\ SortByKeys(perm_a, keys) # SortByKeys(a, keys)
  /\ perm_b # b
  /\ WithStatusOf(perm_combined, "UPDATED").rows # updated.rows

KeysOfBoth == {KeyOf(a.rows[i], keys) : i \in 1..len(a)} \cup {KeyOf(b.rows[j], keys) : j \in 1..len(b)}

AlignedOfKey(k) == {p \in 1..len(combined) : KeyOf(combined.rows[p], keys) = k}

IndexOfKey(df, k) == {i \in 1..len(df) : KeyOf(df.rows[i], keys) = k}

\* C7: a key with m rows in A and n rows in B has exactly m*n aligned rows,
\* one for each combination of an A-row and a B-row, all present on both
\* sides; a key only in A has its m rows, present only in A, and a key only
\* in B its n rows, present only in B.
C7_CartesianPairing ==
  Built =>
    /\ \A p \in 1..len(combined) : KeyOf(combined.rows[p], keys) \in KeysOfBoth
    /\ \A k \in KeysOfBoth :
         LET IA == IndexOfKey(a, k)
             IB == IndexOfKey(b, k)
             P == AlignedOfKey(k)
         IN  /\ (IA # {} /\ IB # {}) =>
                  /\ Cardinality(P) = Cardinality(IA) * Cardinality(IB)
                  /\ \A p \in P : combined.rows[p][MERGE] = "both"
                  /\ \A i \in IA, j \in IB :
                       Cardinality({p \in P : /\ BeforeSide(combined.rows[p]) = a.rows[i]
                                              /\ AfterSide(combined.rows[p]) = b.rows[j]})
                       = Cardinality({i2 \in IA : a.rows[i2] = a.rows[i]})
                         * Cardinality({j2 \in IB : b.rows[j2] = b.rows[j]})
             /\ (IA # {} /\ IB = {}) =>
                  /\ Cardinality(P) = Cardinality(IA)
                  /\ \A p \in P : combined.rows[p][MERGE] = "left_only"
                  /\ \A i \in IA :
                       Cardinality({p \in P : BeforeSide(combined.rows[p]) = a.rows[i]})
                       = Cardinality({i2 \in IA : a.rows[i2] = a.rows[i]})
             /\ (IA = {} /\ IB # {}) =>
                  /\ Cardinality(P) = Cardinality(IB)
                  /\ \A p \in P : combined.rows[p][MERGE] = "right_only"
                  /\ \A j \in IB :
                       Cardinality({p \in P : AfterSide(combined.rows[p]) = b.rows[j]})
                       = Cardinality({j2 \in IB : b.rows[j2] = b.rows[j]})

\* a key with two rows on each side, next to a key only in A
C7_Witness ==
  /\ Built
  /\ \E k \in KeysOfBoth : KeyCount(a, k) >= 2 /\ KeyCount(b, k) >= 2
  /\ \E k \in KeysOfBoth : KeyCount(a, k) >= 1 /\ KeyCount(b, k) = 0

BlankCell(v) == IF isna(v) THEN "" ELSE v

\* the rows of a written CSV file as functions from the header names
RecordRows(f) ==
  [i \in 1..Len(f.records) |->
     [c \in Range(f.header) |->
        f.records[i][CHOOSE j \in 1..Len(f.header) : f.header[j] = c]]]

\* the file holds exactly the rows, projected by side, under the names of df
IsProjection(f, df, rows, side(_)) ==
  /\ Len(f.header) = Len(df.cols)
  /\ SubSeq(f.header, 1, Len(keys)) = keys
  /\ Range(f.header) = columns(df)
  /\ Len(f.records) = Len(rows)
  /\ SeqToBag(RecordRows(f))
       = SeqToBag([i \in 1..Len(rows) |-> [c \in columns(df) |-> BlankCell(side(rows[i])[c])]])

\* C8 as stated: the Deleted file has the key columns followed by the non-key
\* columns under their original names and one row of A's values per DELETED
\* row, the Inserted file the same with B's values per INSERTED row, also when
\* there is no DELETED or no INSERTED row; no suffixed, indicator or status
\* column is in either file.
C8_Projection ==
  csv["deleted"].written =>
    /\ IsProjection(csv["deleted"], a, deleted.rows, BeforeSide)
    /\ IsProjection(csv["inserted"], b, inserted.rows, AfterSide)

StatusRank(st) ==
  CASE st = "SAME" -> 1 [] st = "UPDATED" -> 2 [] st = "DELETED" -> 3 [] st = "INSERTED" -> 4

Blanks == [i \in 1..Len(a.cols) |-> ""]

\* what a grid row shows, and what an aligned row is to show
GridShown(g) ==
  <<g.status.value, [i \in 1..Len(g.left) |-> g.left[i].value],
    [i \in 1..Len(g.right) |-> g.right[i].value]>>
AlignedShown(m) ==
  <<m[STATUS],
    IF m[STATUS] = "INSERTED" THEN Blanks
      ELSE [i \in 1..Len(a.cols) |-> BlankCell(BeforeSide(m)[a.cols[i]])],
    IF m[STATUS] = "DELETED" THEN Blanks
      ELSE [i \in 1..Len(a.cols) |-> BlankCell(AfterSide(m)[a.cols[i]])]>>

\* C9: the data rows of the side-by-side sheet are grouped in the order SAME,
\* UPDATED, DELETED, INSERTED, no row of a later category ahead of a row of an
\* earlier one, and every aligned row is written exactly once.
C9_GroupOrder ==
  excel.written =>
    /\ \A i, j \in 1..Len(excel.rows) :
         i < j => StatusRank(excel.rows[i].status.value) <= StatusRank(excel.rows[j].status.value)
    /\ Len(excel.rows) = len(combined)
    /\ SeqToBag([i \in 1..Len(excel.rows) |-> GridShown(excel.rows[i])])
         = SeqToBag([i \in 1..len(combined) |-> AlignedShown(combined.rows[i])])
    /\ excel.filter_rows[2] = 2 + len(combined)

\* a sheet with rows of all four categories, the aligned rows not in that order
C9_Witness ==
  /\ excel.written
  /\ \A st \in {"SAME", "UPDATED", "DELETED", "INSERTED"} :
       \E i \in 1..Len(excel.rows) : excel.rows[i].status.value = st
  /\ \E i, j \in 1..len(combined) :
       i < j /\ StatusRank(combined.rows[i][STATUS]) > StatusRank(combined.rows[j][STATUS])

\* col=value pairs of a row r over the columns cs, null as NULL, joined by ' | '
ChangeSetLine(cs, r) ==
  Join([j \in 1..Len(cs) |-> cs[j] \o <<"=", IF isna(r[cs[j]]) THEN "NULL" ELSE r[cs[j]]>>], " | ")

\* C10 as stated: the report lists every DELETED row on one line of
\* column=value pairs over the columns of the Deleted ChangeSet (the key
\* columns and the non-key columns under their original names), null as NULL,
\* and every INSERTED row likewise over the Inserted ChangeSet.
C10_ReportRows ==
  report.written =>
    /\ Len(report.deleted.rows) = len(deleted)
    /\ \A i \in 1..len(deleted) :
         report.deleted.rows[i]
           = ChangeSetLine(keys \o non_key_cols(a, keys), BeforeSide(deleted.rows[i]))
    /\ Len(report.inserted.rows) = len(inserted)
    /\ \A i \in 1..len(inserted) :
         report.inserted.rows[i]
           = ChangeSetLine(keys \o non_key_cols(b, keys), AfterSide(inserted.rows[i]))

\* the key line of an UPDATED row: name=value pairs joined by ' | '
KeyValuesLine(m) ==
  <<"Key: ">> \o Join([i \in 1..Len(keys) |->
                         keys[i] \o <<"=", IF isna(m[keys[i]]) THEN "nan" ELSE m[keys[i]]>>], " | ")

\* the non-key columns of an UPDATED row whose sides differ, in name order
DifferingCols(m) ==
  SelectSeq(sorted(Range(non_key_cols(a, keys))),
            LAMBDA c : ~NullEq(BeforeSide(m)[c], AfterSide(m)[c]))

\* 'column: before -> after', a null side as NULL
ChangeLine(m, c) ==
  LET before == BeforeSide(m)[c]
      after == AfterSide(m)[c]
  IN  <<"  ">> \o c \o <<": ", IF isna(before) THEN "NULL" ELSE before, ARROW,
                          IF isna(after) THEN "NULL" ELSE after>>

\* a blank line, the key line, one line per differing non-key column
UpdatedBlock(m) ==
  << <<>>, KeyValuesLine(m) >>
    \o [j \in 1..Len(DifferingCols(m)) |-> ChangeLine(m, DifferingCols(m)[j])]

RECURSIVE UpdatedBlocks(_)
UpdatedBlocks(rows) ==
  IF rows = <<>> THEN <<>> ELSE UpdatedBlock(rows[1]) \o UpdatedBlocks(Tail(rows))

\* C11: in the UPDATED section of the report every UPDATED row is listed by
\* its key values followed by exactly one line 'column: before -> after' for
\* each non-key column whose sides differ under null-aware equality, a null
\* side rendered as NULL, and by no line for a non-key column whose sides do
\* not differ.
C11_UpdatedSection ==
  report.written => report.updated.rows = UpdatedBlocks(updated.rows)

\* a report of an UPDATED row with a column null on both sides and a column
\* null before and set after, the latter listed as 'column: NULL -> after'
C11_Witness ==
  /\ report.written
  /\ \E i \in 1..len(updated) :
       LET m == updated.rows[i]
       IN  \E c, d \in Range(non_key_cols(a, keys)) :
             /\ isna(BeforeSide(m)[c]) /\ isna(AfterSide(m)[c])
             /\ isna(BeforeSide(m)[d]) /\ ~isna(AfterSide(m)[d])
             /\ \E j \in 1..Len(report.updated.rows) :
                  report.updated.rows[j]
                    = <<"  ">> \o d \o <<": ", "NULL", ARROW, AfterSide(m)[d]>>

\* the grid rows of one category, in sheet order
GridRowsOf(st) == SelectSeq(excel.rows, LAMBDA g : g.status.value = st)

BlankBlock(cells) ==
  /\ Len(cells) = Len(a.cols)
  /\ \A j \in 1..Len(cells) : cells[j] = [value |-> "", fill |-> NO_FILL]

\* the cells show the values of rows[i] of df or of the side of m, column
\* by column in A's column order, each with the added/removed highlight
ShownBlock(cells, m, df) ==
  /\ Len(cells) = Len(a.cols)
  /\ \A j \in 1..Len(cells) :
       cells[j] = [value |-> BlankCell(m[a.cols[j]]), fill |-> orange_fill]
  /\ \E k \in 1..len(df) :
       \A j \in 1..Len(cells) : cells[j].value = BlankCell(df.rows[k][a.cols[j]])

\* C12: in the side-by-side sheet every DELETED row shows A's values for all
\* columns in the left block, every left cell with the removed highlight and
\* every right cell blank and unhighlighted; every INSERTED row shows B's
\* values in the right block, every right cell with the added highlight and
\* every left cell blank and unhighlighted; the Status cell is highlighted for
\* UPDATED, DELETED and INSERTED rows and unhighlighted for SAME rows.
C12_OneSidedRows ==
  excel.written =>
    /\ Len(GridRowsOf("DELETED")) = len(deleted)
    /\ \A i \in 1..len(deleted) :
         /\ ShownBlock(GridRowsOf("DELETED")[i].left, BeforeSide(deleted.rows[i]), a)
         /\ BlankBlock(GridRowsOf("DELETED")[i].right)
    /\ Len(GridRowsOf("INSERTED")) = len(inserted)
    /\ \A i \in 1..len(inserted) :
         /\ ShownBlock(GridRowsOf("INSERTED")[i].right, AfterSide(inserted.rows[i]), b)
         /\ BlankBlock(GridRowsOf("INSERTED")[i].left)
    /\ \A i \in 1..Len(excel.rows) :
         excel.rows[i].status.fill # NO_FILL
           <=> excel.rows[i].status.value \in {"UPDATED", "DELETED", "INSERTED"}

\* a sheet with a DELETED row holding a null and a value, an INSERTED row
\* holding a value, and a SAME row
C12_Witness ==
  /\ excel.written
  /\ \E i \in 1..Len(GridRowsOf("DELETED")) :
       \E j, k \in 1..Len(a.cols) :
         /\ GridRowsOf("DELETED")[i].left[j].value = ""
         /\ GridRowsOf("DELETED")[i].left[k].value # ""
  /\ \E i \in 1..Len(GridRowsOf("INSERTED")) :
       \E j \in 1..Len(a.cols) : GridRowsOf("INSERTED")[i].right[j].value # ""
  /\ GridRowsOf("SAME") # <<>>

\* the swap step of main, as a step of the program
SwapStep == pc = "swap" /\ pc' = "columns"

Swapped == a' = b /\ b' = a /\ a_path' = b_path /\ b_path' = a_path
Kept == a' = a /\ b' = b /\ a_path' = a_path /\ b_path' = b_path

\* C13: after the swap step the Reference (A) has at least as many rows as the
\* Compare-to (B) for every pair of inputs; the paths are exchanged together
\* with the tables, so each path still names the file its rows came from, and
\* these are the labels of the report and of the Summary; with equal row
\* counts nothing is exchanged; the DELETED rows are rows of the
\* larger-or-equal input and the INSERTED rows are rows of the other.
C13_LargerIsReference ==
  /\ [](pc = "swap" => a_path = "file1" /\ b_path = "file2")
  /\ [][SwapStep =>
          /\ len(a') >= len(b')
          /\ Swapped \/ Kept
          /\ len(b) > len(a) => Swapped
          /\ len(b) <= len(a) => Kept]_vars
  /\ [](pc \notin {"start", "swap"} => len(a) >= len(b))
  /\ [](Built =>
          /\ \A i \in 1..len(deleted) : BeforeSide(deleted.rows[i]) \in Range(a.rows)
          /\ \A i \in 1..len(inserted) : AfterSide(inserted.rows[i]) \in Range(b.rows))
  /\ [](report.written =>
          /\ report.head[6] = <<"Reference (A): ", a_path>>
          /\ report.head[7] = <<"Compare-to (B): ", b_path>>)
  /\ [](excel.written =>
          /\ excel.summary.a_label = a_path /\ excel.summary.total_a = len(a)
          /\ excel.summary.b_label = b_path /\ excel.summary.total_b = len(b))

\* a finished run in which the second file was the larger and became the
\* reference, with a DELETED and an INSERTED row, report and sheet written
C13_Witness ==
  /\ pc = "done"
  /\ a_path = "file2" /\ b_path = "file1"
  /\ len(a) > len(b)
  /\ len(deleted) > 0 /\ len(inserted) > 0
  /\ report.written /\ excel.written

\* C14 as stated: for any inputs, duplicate key values included, the
\* 'Identical Rows' count of the report equals the number of aligned rows
\* classified SAME, which is the SAME count of the Summary of the same run,
\* and the Deleted, Inserted and Updated counts of the report equal those of
\* the Summary.
C14_ConsistentCounts ==
  (report.written /\ excel.written) =>
    /\ excel.summary.same = Len(SameRows)
    /\ report.head[10] = <<"Identical Rows: ", ToString(excel.summary.same)>>
    /\ report.head[11] = <<"Deleted Rows: ", ToString(excel.summary.deleted)>>
    /\ report.head[12] = <<"Inserted Rows: ", ToString(excel.summary.inserted)>>
    /\ report.head[13] = <<"Updated Rows: ", ToString(excel.summary.updated)>>

====
